---- MODULE Spec2Model ----
(***************************************************************************)
(* Model of user_app.go of ledger-avalanche-go: the client-side driver     *)
(* that talks to the Avalanche app of a Ledger device.  The operations     *)
(* FindLedgerAvalancheApp, GetVersion, CheckVersion, GetPubKey and Sign    *)
(* are modelled step by step; every call of ledger.api.Exchange is split   *)
(* into the hand-over of the command frame to the transport and the        *)
(* receipt of the transport's reply, which is chosen nondeterministically. *)
(***************************************************************************)
EXTENDS Integers, Sequences, FiniteSets, TLC

(***************************************************************************)
(* Bounds of the model.                                                    *)
(***************************************************************************)
\* Len(signingPaths) + Len(changePaths) of a Sign call is at most MaxPaths.
MaxPaths == 2
\* The message of a Sign call fills at most MaxChunks chunks.
MaxChunks == 2
\* The slice handed to RemoveDuplicates has at most MaxElements elements.
MaxElements == 5

(***************************************************************************)
(* Constants of the package that user_app.go uses and does not define.     *)
(***************************************************************************)
CLA == 128
INS_GET_VERSION == 0
INS_GET_ADDR == 1
INS_SIGN == 2
INS_SIGN_HASH == 4
PAYLOAD_INIT == 0
PAYLOAD_ADD == 1
PAYLOAD_LAST == 2
FIRST_MESSAGE == 1
LAST_MESSAGE == 2
NEXT_MESSAGE == 3
P1_ONLY_RETRIEVE == 0
P1_SHOW_ADDRESS_IN_DEVICE == 1
CHUNK_SIZE == 250
\* LedgerError NoErrors, the status word 0x9000
NoErrors == 36864
\* a status word other than NoErrors (0x6985, conditions not satisfied)
StatusRejected == 105 * 256 + 133

\* byte(x): conversion of a non-negative int to a Go byte
byte(x) == x % 256

\* s[lo:hi] of Go (0-based, hi exclusive) for 0 <= lo <= hi <= len(s)
Slice(s, lo, hi) == [k \in 1..(hi - lo) |-> s[lo + k]]

RECURSIVE Flatten(_)
\* the concatenation of a sequence of byte sequences
Flatten(ss) == IF ss = <<>> THEN <<>> ELSE Head(ss) \o Flatten(Tail(ss))

\* the elements of a sequence
Range(s) == {s[k] : k \in 1..Len(s)}

\* all sequences over S of length at most n
SeqsUpTo(S, n) == UNION {[1..k -> S] : k \in 0..n}

(***************************************************************************)
(* Errors.  A Go error is nil, or carries a text; errors.New(string(b))    *)
(* carries the bytes b as its text.                                        *)
(***************************************************************************)
NilErr == [isNil |-> TRUE, text |-> "", raw |-> <<>>]
ErrText(s) == [isNil |-> FALSE, text |-> s, raw |-> <<>>]
ErrRaw(b) == [isNil |-> FALSE, text |-> "", raw |-> b]

ErrClaNotSupported == "[APDU_CODE_CLA_NOT_SUPPORTED] CLA not supported"
ErrBadKeyHandle == "[APDU_CODE_BAD_KEY_HANDLE] The parameters in the data field are incorrect"
ErrDataInvalid == "[APDU_CODE_DATA_INVALID] Referenced data reversibly blocked (invalidated)"
ErrTransport == "transport error"

(***************************************************************************)
(* Serializers of the package (common.go), pure functions.  A result is    *)
(* [ok, buf]: ok = FALSE stands for a non-nil error.                       *)
(***************************************************************************)
GoodPrefix == "m/44'/9000'/0'"
BadPrefix == "44'/9000'"
SuffixA == "0/0"
SuffixB == "0/1"
SuffixBad == "m/0"

\* the byte count of a serialized path suffix: 1 count byte and 2 components of 4 bytes
SUFFIX_LEN == 9

SerializePath(path) ==
    IF path = GoodPrefix
    THEN [ok |-> TRUE, buf |-> <<3, 128, 0, 0, 44, 128, 0, 35, 40, 128, 0, 0, 0>>]
    ELSE [ok |-> FALSE, buf |-> <<>>]

SerializePathSuffix(path) ==
    CASE path = SuffixA -> [ok |-> TRUE, buf |-> <<2, 0, 0, 0, 0, 0, 0, 0, 0>>]
      [] path = SuffixB -> [ok |-> TRUE, buf |-> <<2, 0, 0, 0, 0, 0, 0, 0, 1>>]
      [] OTHER -> [ok |-> FALSE, buf |-> <<>>]

\* a human readable prefix is a sequence of character codes; a character
\* outside the printable ASCII range is rejected
SerializeHrp(hrp) ==
    IF \A k \in 1..Len(hrp) : hrp[k] >= 33 /\ hrp[k] <= 126
    THEN [ok |-> TRUE, buf |-> <<byte(Len(hrp))>> \o hrp]
    ELSE [ok |-> FALSE, buf |-> <<>>]

GoodChainID == "2oYMBNV4eNHyqk2fjjV5nVQLDbtmNJzq5s3qs3Lo6ftnC6FByM"
BadChainID == "0OIl"

SerializeChainID(chainid) ==
    IF chainid = GoodChainID
    THEN [ok |-> TRUE, buf |-> [k \in 1..32 |-> byte(7 * k)]]
    ELSE [ok |-> FALSE, buf |-> <<>>]

\* CheckVersion(ver, req) of the package: major, minor and patch equal the required ones
CheckVersionReq(ver, req) ==
    IF ver.Major = req.Major /\ ver.Minor = req.Minor /\ ver.Patch = req.Patch
    THEN NilErr
    ELSE ErrText("unsupported version")


(***************************************************************************)
(* Pure functions of user_app.go.                                          *)
(***************************************************************************)
RECURSIVE RemoveDuplicatesAdjacent(_, _, _, _)
\* RemoveDuplicatesLoop that remembers only the element seen last
RemoveDuplicatesAdjacent(elements, v, encountered, result) ==
    IF v >= Len(elements)
    THEN result
    ELSE IF elements[v + 1] \in encountered
         THEN RemoveDuplicatesAdjacent(elements, v + 1, encountered, result)
         ELSE RemoveDuplicatesAdjacent(elements, v + 1, {elements[v + 1]},
                                       Append(result, elements[v + 1]))

RECURSIVE RemoveDuplicatesLoop(_, _, _, _)
\* the loop of RemoveDuplicates from index v (0-based) with the map
\* encountered (the set of its keys) and the slice result
RemoveDuplicatesLoop(elements, v, encountered, result) ==
    IF v >= Len(elements)
    THEN result
    ELSE IF elements[v + 1] \in encountered
         THEN RemoveDuplicatesLoop(elements, v + 1, encountered, result)
         ELSE RemoveDuplicatesLoop(elements, v + 1, encountered \cup {elements[v + 1]},
                                   Append(result, elements[v + 1]))

RemoveDuplicates(elements) == RemoveDuplicatesLoop(elements, 0, {}, <<>>)

\* paths of Sign: the slice and whether it is nil
SignPaths(signingPaths, changePaths, changeNil) ==
    IF ~changeNil
    THEN RemoveDuplicates(signingPaths \o changePaths)
    ELSE signingPaths

SignPathsNil(signingNil, changeNil) == changeNil /\ signingNil

\* ConcatMessageAndChangePath(message, path); the nil result is the empty sequence
ConcatMessageAndChangePath(message, path, pathNil) ==
    IF pathNil
    THEN <<0>> \o message
    ELSE IF \E k \in 1..Len(path) : ~SerializePathSuffix(path[k]).ok
         THEN <<>>
         ELSE <<byte(Len(path))>>
              \o Flatten([k \in 1..Len(path) |-> SerializePathSuffix(path[k]).buf])
              \o message

\* message := []byte{CLA, INS_GET_VERSION, 0, 0, 0}
GetVersionFrame == <<CLA, INS_GET_VERSION, 0, 0, 0>>

\* the message of GetPubKey, its length byte updated
GetAddrFrame(p1, serializedHRP, serializedChainID, serializedPath) ==
    LET header == <<CLA, INS_GET_ADDR, p1, 0, 0>>
        message == header \o serializedHRP \o serializedChainID \o serializedPath
    IN  [message EXCEPT ![5] = byte(Len(message) - Len(header))]

\* bytesToSend of the INIT frame of Sign
InitFrame(serializedPath) ==
    <<CLA, INS_SIGN, byte(PAYLOAD_INIT), byte(FIRST_MESSAGE), byte(Len(serializedPath))>>
    \o serializedPath

\* end of the chunk that starts at i
ChunkEnd(m, j) == IF j + CHUNK_SIZE > Len(m) THEN Len(m) ELSE j + CHUNK_SIZE

\* payloadType of the chunk that starts at i
ChunkPayloadType(m, j) == IF j + CHUNK_SIZE > Len(m) THEN PAYLOAD_LAST ELSE PAYLOAD_ADD

\* bytesToSend of the chunk of msg that starts at i
ChunkFrame(m, j) ==
    LET end == ChunkEnd(m, j)
        chunk == Slice(m, j, end)
        chunkSize == end - j
    IN  <<CLA, INS_SIGN, byte(ChunkPayloadType(m, j)), byte(0), byte(chunkSize)>> \o chunk

\* HashP1 with the bound of the comparison off by one
HashP1OffByOne(k, n) == IF k < n THEN NEXT_MESSAGE ELSE LAST_MESSAGE

\* p1 of the sign-hash frame of iteration k (0-based) of n
HashP1(k, n) == IF k < n - 1 THEN NEXT_MESSAGE ELSE LAST_MESSAGE

\* bytesToSend of a sign-hash frame
SignHashFrame(p1, pathBuf) == <<CLA, INS_SIGN_HASH, byte(p1), 0>> \o pathBuf

\* returnCode of a sign-hash response of at least two bytes
ReturnCode(response) == response[Len(response) - 1] * 256 + response[Len(response)]

\* signatures[suffix] = value; a map is the set of its entries
MapPut(m, k, v) == {e \in m : e.key # k} \cup {[key |-> k, val |-> v]}
MapKeys(m) == {e.key : e \in m}


(***************************************************************************)
(* State.                                                                  *)
(***************************************************************************)
VARIABLES
    op,          \* the operation called
    args,        \* its arguments
    pc,          \* the position of the call
    gvCaller,    \* who called GetVersion: "top", "Find" or "Check"
    cvCaller,    \* who called CheckVersion: "top" or "Find"
    version,     \* ledger.version
    opened,      \* number of handles Connect has returned
    closed,      \* number of calls of ledgerAPI.Close
    sent,        \* the frames handed to Exchange, in order
    replies,     \* the replies Exchange has returned, in order
    msg,         \* msg of Sign
    i,           \* i of the chunk loop of Sign
    idx,         \* idx of the loop of SignAndCollect
    signatures,  \* signatures of SignAndCollect
    ret          \* what the call has returned

vars == <<op, args, pc, gvCaller, cvCaller, version, opened, closed, sent, replies,
          msg, i, idx, signatures, ret>>

\* what a call returns
Running == [state |-> "running", isNil |-> TRUE, err |-> NilErr,
            signatures |-> {}, publicKey |-> <<>>, hash |-> <<>>, list |-> <<>>]
ReturnErr(e) == [Running EXCEPT !.state = "returned", !.err = e]
ReturnOk == [Running EXCEPT !.state = "returned", !.isNil = FALSE]
ReturnSign(sigs) == [Running EXCEPT !.state = "returned", !.isNil = FALSE, !.signatures = sigs]
ReturnPubKey(pk, h, e) ==
    [Running EXCEPT !.state = "returned", !.isNil = FALSE, !.publicKey = pk, !.hash = h,
                    !.err = e]
ReturnList(l) == [Running EXCEPT !.state = "returned", !.isNil = FALSE, !.list = l]
Panic == [Running EXCEPT !.state = "panic"]

(***************************************************************************)
(* The inputs of the calls and the replies of the transport.               *)
(***************************************************************************)
SuffixStrings == {SuffixA, SuffixB, SuffixBad}

\* the message of n bytes
Message(n) == [k \in 1..n |-> byte(16 + 3 * k)]

\* message lengths around the multiples of the chunk size
MsgLens ==
    {0} \cup {k * CHUNK_SIZE - d : k \in 1..MaxChunks,
                                   d \in {0} \cup {1 + SUFFIX_LEN * n : n \in 0..MaxPaths}}

Avax == <<97, 118, 97, 120>>
HrpBadChar == <<97, 32>>
HrpLong == [k \in 1..84 |-> 97]

ZeroVersion == [AppMode |-> 0, Major |-> 0, Minor |-> 0, Patch |-> 0]
\* VersionInfo{0, 0, 6, 5}
RequiredVersion == [AppMode |-> 0, Major |-> 0, Minor |-> 6, Patch |-> 5]
SeenVersion == [AppMode |-> 0, Major |-> 0, Minor |-> 6, Patch |-> 4]

NoArgs == [pathPrefix |-> "", signingPaths |-> <<>>, signingNil |-> TRUE,
           changePaths |-> <<>>, changeNil |-> TRUE, message |-> <<>>,
           path |-> "", show |-> FALSE, hrp |-> <<>>, chainid |-> "",
           ver |-> ZeroVersion, elements |-> <<>>]

\* a nil slice is empty
NilFlags(s) == IF s = <<>> THEN BOOLEAN ELSE {FALSE}

SignArgs ==
    UNION {UNION {{[NoArgs EXCEPT !.pathPrefix = pp, !.signingPaths = sp, !.signingNil = sn,
                                  !.changePaths = cp, !.changeNil = cn,
                                  !.message = Message(n)] :
                      pp \in {GoodPrefix, BadPrefix}, sn \in NilFlags(sp),
                      cn \in NilFlags(cp), n \in MsgLens} :
                  cp \in SeqsUpTo(SuffixStrings, MaxPaths - Len(sp))} :
           sp \in SeqsUpTo(SuffixStrings, MaxPaths)}

\* signing a message of 1000 bytes with 3 signing paths and no change paths
ScenarioArgs ==
    [NoArgs EXCEPT !.pathPrefix = GoodPrefix, !.signingPaths = <<SuffixA, SuffixB, SuffixA>>,
                   !.signingNil = FALSE, !.message = Message(4 * CHUNK_SIZE)]

\* the version handed to the CheckVersion method
CheckVersionArgs ==
    {[NoArgs EXCEPT !.ver = v] : v \in {ZeroVersion, SeenVersion, RequiredVersion}}

\* the slices handed to RemoveDuplicates
RemoveDuplicatesArgs ==
    {[NoArgs EXCEPT !.elements = e] : e \in SeqsUpTo(SuffixStrings, MaxElements)}

PubKeyArgs ==
    {[NoArgs EXCEPT !.path = p, !.show = sh, !.hrp = h, !.chainid = c] :
        p \in {GoodPrefix, BadPrefix}, sh \in BOOLEAN,
        h \in {<<>>, Avax, HrpBadChar, HrpLong}, c \in {GoodChainID, BadChainID}}

Reply(data, e) == [data |-> data, err |-> e]
Status(code) == <<code \div 256, code % 256>>

VersionReplies ==
    {Reply(<<>>, ErrText(ErrClaNotSupported)), Reply(<<>>, ErrText(ErrTransport))}
    \cup {Reply(d, NilErr) :
            d \in {<<>>, <<0, 0, 6>>, <<0, 0, 6, 5>>, <<0, 0, 6, 4>>, <<1, 0, 6, 5>>,
                   <<0, 1, 6, 5>>, <<0, 0>> \o Status(NoErrors),
                   <<0, 0, 6, 5>> \o Status(NoErrors)}}

InitReplies ==
    {Reply(Status(NoErrors), NilErr), Reply(<<>>, ErrText(ErrTransport)),
     Reply(<<105>>, ErrText(ErrBadKeyHandle))}

ChunkReplies ==
    {Reply(Status(NoErrors), NilErr), Reply(<<>>, ErrText(ErrTransport)),
     Reply(<<100, 101>>, ErrText(ErrBadKeyHandle)), Reply(<<102>>, ErrText(ErrDataInvalid))}

HashReplies ==
    {Reply(<<>>, ErrText(ErrTransport))}
    \cup {Reply(d, NilErr) :
            d \in {<<>>, <<144>>, Status(NoErrors), <<170>> \o Status(NoErrors),
                   <<187, 204>> \o Status(NoErrors), Status(StatusRejected),
                   <<170>> \o Status(StatusRejected)}}

\* replies to a get-address request: a length byte, filler bytes, a status word
PubKeyReplies ==
    {Reply(<<>>, ErrText(ErrTransport)), Reply(<<33>>, NilErr)}
    \cup {Reply(<<n>> \o [k \in 1..m |-> byte(k)] \o Status(NoErrors), NilErr) :
            n \in {0, 33, 53, 56, 57, 255}, m \in {32, 53, 57}}


(***************************************************************************)
(* Init: one call of one operation, not yet started.                       *)
(***************************************************************************)
Ops == {"Find", "GetVersion", "CheckVersion", "GetPubKey", "Sign", "RemoveDuplicates"}

StartPc(o) ==
    CASE o = "Find" -> "Find_connect"
      [] o = "GetVersion" -> "GV_send"
      [] o = "CheckVersion" -> "GV_send"
      [] o = "GetPubKey" -> "PK_start"
      [] o = "Sign" -> "Sign_start"
      [] o = "RemoveDuplicates" -> "RD_start"

Init ==
    /\ op \in Ops
    /\ args \in CASE op = "Sign" -> SignArgs \cup {ScenarioArgs}
                  [] op = "GetPubKey" -> PubKeyArgs
                  [] op = "CheckVersion" -> CheckVersionArgs
                  [] op = "RemoveDuplicates" -> RemoveDuplicatesArgs
                  [] OTHER -> {NoArgs}
    /\ pc = StartPc(op)
    /\ gvCaller = CASE op = "Find" -> "Find" [] op = "CheckVersion" -> "Check" [] OTHER -> "top"
    /\ cvCaller = IF op = "Find" THEN "Find" ELSE "top"
    /\ version \in IF op \in {"GetVersion", "CheckVersion"}
                   THEN {ZeroVersion, SeenVersion} ELSE {ZeroVersion}
    /\ opened = IF op = "Find" THEN 0 ELSE 1
    /\ closed = 0
    /\ sent = <<>>
    /\ replies = <<>>
    /\ msg = <<>>
    /\ i = 0
    /\ idx = 0
    /\ signatures = {}
    /\ ret = Running

(***************************************************************************)
(* FindLedgerAvalancheApp.                                                 *)
(***************************************************************************)
\* DeferredClose that closes whatever the result
DeferredCloseAlways(rerr, c) == c + 1

\* the deferred function of FindLedgerAvalancheApp: the number of Close
\* calls after it has run with the named result rerr
DeferredClose(rerr, c) == IF ~rerr.isNil THEN c + 1 ELSE c

\* ledgerAdmin.Connect(0) and what follows it up to the first exchange
FindConnect ==
    /\ pc = "Find_connect"
    /\ \E ok \in BOOLEAN :
         IF ok
         THEN /\ opened' = opened + 1
              /\ pc' = "GV_send"
              /\ UNCHANGED ret
         ELSE /\ ret' = ReturnErr(ErrText("connect failed"))
              /\ pc' = "done"
              /\ UNCHANGED opened
    /\ UNCHANGED <<op, args, gvCaller, cvCaller, version, closed, sent, replies,
                   msg, i, idx, signatures>>

\* the error FindLedgerAvalancheApp returns when GetVersion fails with err
FindVersionError(err) ==
    IF err = ErrText(ErrClaNotSupported)
    THEN ErrText("are you sure the Avalanche app is open?")
    ELSE err

(***************************************************************************)
(* GetVersion and CheckVersion.                                            *)
(***************************************************************************)
GetVersionSend ==
    /\ pc = "GV_send"
    /\ sent' = Append(sent, GetVersionFrame)
    /\ pc' = "GV_recv"
    /\ UNCHANGED <<op, args, gvCaller, cvCaller, version, opened, closed, replies,
                   msg, i, idx, signatures, ret>>

\* the error GetVersion returns for the reply r
GetVersionErr(r) ==
    IF ~r.err.isNil THEN r.err
    ELSE IF Len(r.data) < 4 THEN ErrText("invalid response")
    ELSE NilErr

\* ledger.version after GetVersion has handled the reply r
GetVersionStore(r, old) ==
    IF GetVersionErr(r).isNil
    THEN [AppMode |-> r.data[1], Major |-> r.data[2], Minor |-> r.data[3],
          Patch |-> r.data[4]]
    ELSE old

\* CheckVersionErr that compares the version it was called with
CheckVersionErrUsesArg(r, old, ver) ==
    IF ~GetVersionErr(r).isNil
    THEN GetVersionErr(r)
    ELSE CheckVersionReq(ver, RequiredVersion)

\* the error the CheckVersion method, called with ver, returns once its
\* GetVersion has handled r
CheckVersionErr(r, old, ver) ==
    IF ~GetVersionErr(r).isNil
    THEN GetVersionErr(r)
    ELSE CheckVersionReq(GetVersionStore(r, old), RequiredVersion)

\* the reply to the get-version frame, and the rest of GetVersion and of its
\* callers up to their next exchange or their return
GetVersionRecv ==
    /\ pc = "GV_recv"
    /\ \E r \in VersionReplies :
         /\ replies' = Append(replies, r)
         /\ version' = GetVersionStore(r, version)
         /\ CASE gvCaller = "top" ->
                   /\ ret' = IF GetVersionErr(r).isNil THEN ReturnOk
                             ELSE ReturnErr(GetVersionErr(r))
                   /\ pc' = "done"
                   /\ UNCHANGED <<gvCaller, closed>>
              [] gvCaller = "Find" ->
                   IF ~GetVersionErr(r).isNil
                   THEN /\ ret' = ReturnErr(FindVersionError(GetVersionErr(r)))
                        /\ closed' = DeferredClose(FindVersionError(GetVersionErr(r)), closed)
                        /\ pc' = "done"
                        /\ UNCHANGED gvCaller
                   ELSE /\ gvCaller' = "Check"
                        /\ pc' = "GV_send"
                        /\ UNCHANGED <<ret, closed>>
              [] gvCaller = "Check" ->
                   /\ pc' = "done"
                   /\ UNCHANGED gvCaller
                   /\ IF cvCaller = "top"
                      THEN /\ ret' = ReturnErr(CheckVersionErr(r, version, args.ver))
                           /\ UNCHANGED closed
                      ELSE /\ ret' = IF ~CheckVersionErr(r, version, version).isNil
                                     THEN ReturnErr(CheckVersionErr(r, version, version))
                                     ELSE ReturnOk
                           /\ closed' = DeferredClose(CheckVersionErr(r, version, version),
                                                      closed)
    /\ UNCHANGED <<op, args, cvCaller, opened, sent, msg, i, idx, signatures>>


(***************************************************************************)
(* GetPubKey.                                                              *)
(***************************************************************************)
\* the error of the checks and serializations that precede the exchange
PubKeyInputErr(a) ==
    IF Len(a.hrp) > 83 THEN ErrText("hrp len should be < 83 chars")
    ELSE IF ~SerializeHrp(a.hrp).ok THEN ErrText("invalid hrp")
    ELSE IF ~SerializePath(a.path).ok THEN ErrText("invalid path")
    ELSE IF ~SerializeChainID(a.chainid).ok THEN ErrText("invalid chain id")
    ELSE NilErr

PubKeyP1(show) == IF show THEN byte(P1_SHOW_ADDRESS_IN_DEVICE) ELSE byte(P1_ONLY_RETRIEVE)

GetPubKeyStart ==
    /\ pc = "PK_start"
    /\ IF ~PubKeyInputErr(args).isNil
       THEN /\ ret' = ReturnErr(PubKeyInputErr(args))
            /\ pc' = "done"
            /\ UNCHANGED sent
       ELSE /\ sent' = Append(sent, GetAddrFrame(PubKeyP1(args.show),
                                                 SerializeHrp(args.hrp).buf,
                                                 SerializeChainID(args.chainid).buf,
                                                 SerializePath(args.path).buf))
            /\ pc' = "PK_recv"
            /\ UNCHANGED ret
    /\ UNCHANGED <<op, args, gvCaller, cvCaller, version, opened, closed, replies,
                   msg, i, idx, signatures>>

\* publicKeyLen+1, computed in a byte
PubKeyEnd(response) == byte(response[1] + 1)

\* what GetPubKey returns for the reply r
GetPubKeyResult(r, hrp) ==
    IF ~r.err.isNil THEN ReturnErr(r.err)
    ELSE IF Len(r.data) < 35 + Len(hrp) THEN ReturnErr(ErrText("Invalid response"))
    ELSE IF PubKeyEnd(r.data) < 1 \/ PubKeyEnd(r.data) > Len(r.data) THEN Panic
    ELSE ReturnPubKey(Slice(r.data, 1, PubKeyEnd(r.data)),
                      Slice(r.data, PubKeyEnd(r.data), Len(r.data)), r.err)

GetPubKeyRecv ==
    /\ pc = "PK_recv"
    /\ \E r \in PubKeyReplies :
         /\ replies' = Append(replies, r)
         /\ ret' = GetPubKeyResult(r, args.hrp)
    /\ pc' = "done"
    /\ UNCHANGED <<op, args, gvCaller, cvCaller, version, opened, closed, sent,
                   msg, i, idx, signatures>>

(***************************************************************************)
(* Sign and SignAndCollect.                                                *)
(***************************************************************************)
\* Sign up to the INIT exchange
SignStart ==
    /\ pc = "Sign_start"
    /\ IF ~SerializePath(args.pathPrefix).ok
       THEN /\ ret' = ReturnErr(ErrText("invalid path"))
            /\ pc' = "done"
            /\ UNCHANGED sent
       ELSE /\ sent' = Append(sent, InitFrame(SerializePath(args.pathPrefix).buf))
            /\ pc' = "Sign_init_recv"
            /\ UNCHANGED ret
    /\ UNCHANGED <<op, args, gvCaller, cvCaller, version, opened, closed, replies,
                   msg, i, idx, signatures>>

\* the head of the loop of SignAndCollect at iteration k with the map sigs:
\* the next sign-hash frame is due, or SignAndCollect returns
CollectPc(a, k) ==
    IF k < Len(a.signingPaths) /\ SerializePathSuffix(a.signingPaths[k + 1]).ok
    THEN "Hash_send" ELSE "done"

CollectRet(a, k, sigs) ==
    IF k < Len(a.signingPaths)
    THEN IF SerializePathSuffix(a.signingPaths[k + 1]).ok
         THEN Running
         ELSE ReturnErr(ErrText("invalid path"))
    ELSE ReturnSign(sigs)

\* the head of the chunk loop of Sign at index j: the next chunk is due, or
\* SignAndCollect starts with an empty map
\* UploadPc with a loop condition that admits i = len(msg)
UploadPcInclusive(a, m, j) == IF j <= Len(m) THEN "Sign_chunk_send" ELSE CollectPc(a, 0)

UploadPc(a, m, j) == IF j < Len(m) THEN "Sign_chunk_send" ELSE CollectPc(a, 0)
UploadRet(a, m, j) == IF j < Len(m) THEN Running ELSE CollectRet(a, 0, {})

\* msg of Sign
SignMsg(a) ==
    ConcatMessageAndChangePath(a.message,
                               SignPaths(a.signingPaths, a.changePaths, a.changeNil),
                               SignPathsNil(a.signingNil, a.changeNil))

\* InitError that passes the transport's error on
InitErrorVerbatim(r) == r.err

\* the error Sign returns when the INIT exchange fails with the reply r
InitError(r) == ErrText("command rejected")

\* the reply to the INIT frame
SignInitRecv ==
    /\ pc = "Sign_init_recv"
    /\ \E r \in InitReplies :
         /\ replies' = Append(replies, r)
         /\ IF ~r.err.isNil
            THEN /\ ret' = ReturnErr(InitError(r))
                 /\ pc' = "done"
                 /\ UNCHANGED msg
            ELSE /\ msg' = SignMsg(args)
                 /\ pc' = UploadPc(args, SignMsg(args), 0)
                 /\ ret' = UploadRet(args, SignMsg(args), 0)
    /\ UNCHANGED <<op, args, gvCaller, cvCaller, version, opened, closed, sent,
                   i, idx, signatures>>

\* SignChunkSend that goes on to the next chunk without awaiting the reply
SignChunkSendPipelined ==
    /\ pc = "Sign_chunk_send"
    /\ sent' = Append(sent, ChunkFrame(msg, i))
    /\ i' = IF i + CHUNK_SIZE < Len(msg) THEN i + CHUNK_SIZE ELSE i
    /\ pc' = IF i + CHUNK_SIZE < Len(msg) THEN "Sign_chunk_send" ELSE "Sign_chunk_recv"
    /\ UNCHANGED <<op, args, gvCaller, cvCaller, version, opened, closed, replies,
                   msg, idx, signatures, ret>>

SignChunkSend ==
    /\ pc = "Sign_chunk_send"
    /\ sent' = Append(sent, ChunkFrame(msg, i))
    /\ pc' = "Sign_chunk_recv"
    /\ UNCHANGED <<op, args, gvCaller, cvCaller, version, opened, closed, replies,
                   msg, i, idx, signatures, ret>>

\* ChunkError without the two special cases: the transport's error as it is
ChunkErrorUnchanged(r) == r.err

\* the error Sign returns when the exchange of a chunk fails with the reply r
ChunkError(r) ==
    IF r.err = ErrText(ErrBadKeyHandle) THEN ErrRaw(r.data)
    ELSE IF r.err = ErrText(ErrDataInvalid) THEN ErrRaw(r.data)
    ELSE r.err

\* SignChunkRecv that sends the chunk again after the first failed exchange
SignChunkRecvRetry ==
    /\ pc = "Sign_chunk_recv"
    /\ \E r \in ChunkReplies :
         /\ replies' = Append(replies, r)
         /\ IF ~r.err.isNil
                /\ \A k \in 1..Len(replies) : replies[k].err.isNil
            THEN /\ pc' = "Sign_chunk_send"
                 /\ UNCHANGED <<i, ret>>
            ELSE IF ~r.err.isNil
            THEN /\ ret' = ReturnErr(ChunkError(r))
                 /\ pc' = "done"
                 /\ UNCHANGED i
            ELSE /\ i' = i + CHUNK_SIZE
                 /\ pc' = UploadPc(args, msg, i + CHUNK_SIZE)
                 /\ ret' = UploadRet(args, msg, i + CHUNK_SIZE)
    /\ UNCHANGED <<op, args, gvCaller, cvCaller, version, opened, closed, sent,
                   msg, idx, signatures>>

\* the reply to a chunk frame
SignChunkRecv ==
    /\ pc = "Sign_chunk_recv"
    /\ \E r \in ChunkReplies :
         /\ replies' = Append(replies, r)
         /\ IF ~r.err.isNil
            THEN /\ ret' = ReturnErr(ChunkError(r))
                 /\ pc' = "done"
                 /\ UNCHANGED i
            ELSE /\ i' = i + CHUNK_SIZE
                 /\ pc' = UploadPc(args, msg, i + CHUNK_SIZE)
                 /\ ret' = UploadRet(args, msg, i + CHUNK_SIZE)
    /\ UNCHANGED <<op, args, gvCaller, cvCaller, version, opened, closed, sent,
                   msg, idx, signatures>>

SignHashSend ==
    /\ pc = "Hash_send"
    /\ sent' = Append(sent, SignHashFrame(HashP1(idx, Len(args.signingPaths)),
                                          SerializePathSuffix(args.signingPaths[idx + 1]).buf))
    /\ pc' = "Hash_recv"
    /\ UNCHANGED <<op, args, gvCaller, cvCaller, version, opened, closed, replies,
                   msg, i, idx, signatures, ret>>

\* HashStore that keeps the status bytes in the recorded value
HashStoreWithStatus(sigs, suffix, response) ==
    IF ReturnCode(response) = NoErrors /\ Len(response) > 2
    THEN MapPut(sigs, suffix, response)
    ELSE sigs

\* signatures after the response of the sign-hash round trip for suffix
HashStore(sigs, suffix, response) ==
    IF ReturnCode(response) = NoErrors /\ Len(response) > 2
    THEN MapPut(sigs, suffix, Slice(response, 0, Len(response) - 2))
    ELSE sigs

\* HashFailed with the status read only from responses that carry a body
HashFailedOnlyWithBody(response) ==
    ReturnCode(response) # NoErrors /\ Len(response) > 2

\* whether the response of a sign-hash round trip ends SignAndCollect with
\* "signing hash failed"
HashFailed(response) ==
    ~(ReturnCode(response) = NoErrors /\ Len(response) > 2)
    /\ ReturnCode(response) # NoErrors

\* the reply to a sign-hash frame
SignHashRecv ==
    /\ pc = "Hash_recv"
    /\ \E r \in HashReplies :
         /\ replies' = Append(replies, r)
         /\ IF ~r.err.isNil
            THEN /\ ret' = ReturnErr(r.err)
                 /\ pc' = "done"
                 /\ UNCHANGED <<idx, signatures>>
            ELSE IF Len(r.data) < 2
            THEN /\ ret' = Panic
                 /\ pc' = "done"
                 /\ UNCHANGED <<idx, signatures>>
            ELSE IF HashFailed(r.data)
            THEN /\ ret' = ReturnErr(ErrText("signing hash failed"))
                 /\ pc' = "done"
                 /\ UNCHANGED <<idx, signatures>>
            ELSE /\ signatures' = HashStore(signatures, args.signingPaths[idx + 1], r.data)
                 /\ idx' = idx + 1
                 /\ pc' = CollectPc(args, idx + 1)
                 /\ ret' = CollectRet(args, idx + 1,
                                      HashStore(signatures, args.signingPaths[idx + 1], r.data))
    /\ UNCHANGED <<op, args, gvCaller, cvCaller, version, opened, closed, sent, msg, i>>

(***************************************************************************)
(* A call of RemoveDuplicates.                                             *)
(***************************************************************************)
RemoveDuplicatesCall ==
    /\ pc = "RD_start"
    /\ ret' = ReturnList(RemoveDuplicates(args.elements))
    /\ pc' = "done"
    /\ UNCHANGED <<op, args, gvCaller, cvCaller, version, opened, closed, sent, replies,
                   msg, i, idx, signatures>>

Next ==
    \/ RemoveDuplicatesCall
    \/ FindConnect
    \/ GetVersionSend
    \/ GetVersionRecv
    \/ GetPubKeyStart
    \/ GetPubKeyRecv
    \/ SignStart
    \/ SignInitRecv
    \/ SignChunkSend
    \/ SignChunkRecv
    \/ SignHashSend
    \/ SignHashRecv

Spec == Init /\ [][Next]_vars


(***************************************************************************)
(* Vocabulary of the properties.                                           *)
(***************************************************************************)
FrameIns(f) == f[2]
FrameP1(f) == f[3]
FrameP2(f) == f[4]
IsInitFrame(f) == FrameIns(f) = INS_SIGN /\ FrameP1(f) = PAYLOAD_INIT
IsChunkFrame(f) == FrameIns(f) = INS_SIGN /\ FrameP1(f) \in {PAYLOAD_ADD, PAYLOAD_LAST}
IsHashFrame(f) == FrameIns(f) = INS_SIGN_HASH
ChunkFrames == SelectSeq(sent, IsChunkFrame)
HashFrames == SelectSeq(sent, IsHashFrame)

\* the bytes of a response before its two status bytes
Body(response) == SubSeq(response, 1, Len(response) - 2)
StatusOf(response) == response[Len(response) - 1] * 256 + response[Len(response)]

SignReturned == op = "Sign" /\ ret.state = "returned"
SignSucceeded == SignReturned /\ ret.err.isNil
\* the INIT exchange of Sign has succeeded
InitDone == op = "Sign" /\ Len(replies) >= 1 /\ replies[1].err.isNil
\* every chunk of msg has been sent and acknowledged
UploadDone == InitDone /\ i >= Len(msg)
AllSuffixesValid ==
    \A p \in Range(args.signingPaths) \cup Range(args.changePaths) :
        SerializePathSuffix(p).ok

\* the elements of s in order of first occurrence
FirstOccurrences(s) ==
    LET first == {k \in 1..Len(s) : \A j \in 1..(k - 1) : s[j] # s[k]}
        nth(n) == CHOOSE k \in first : Cardinality({j \in first : j < k}) = n - 1
    IN  [n \in 1..Cardinality(first) |-> s[nth(n)]]

(***************************************************************************)
(* C1: whenever Sign returns successfully, the signatures of the result    *)
(* have exactly one entry per element of signingPaths, keyed by it, and no *)
(* other key (stated for calls whose suffixes all serialize).  Refuted: a  *)
(* sign-hash response that is only the status NoErrors records nothing and *)
(* Sign still succeeds.                                                    *)
(***************************************************************************)
C1_OneSignaturePerSigningPath ==
    (SignSucceeded /\ AllSuffixesValid) =>
        /\ MapKeys(ret.signatures) = Range(args.signingPaths)
        /\ Cardinality(ret.signatures) = Cardinality(Range(args.signingPaths))

(***************************************************************************)
(* C2: once an exchange of a Sign run has failed, or a sign-hash response  *)
(* has carried a status other than NoErrors, Sign has returned nil and an  *)
(* error, whatever signatures were collected before; the status failure is *)
(* reported as "signing hash failed".                                      *)
(***************************************************************************)
ExchangeFailed == \E k \in 1..Len(replies) : ~replies[k].err.isNil
HashStatusFailed ==
    \E k \in 1..Len(replies) :
        /\ IsHashFrame(sent[k])
        /\ replies[k].err.isNil
        /\ Len(replies[k].data) >= 2
        /\ StatusOf(replies[k].data) # NoErrors

C2_FailureReturnsNoResult ==
    (op = "Sign" /\ (ExchangeFailed \/ HashStatusFailed)) =>
        /\ pc = "done"
        /\ ret.state = "returned"
        /\ ret.isNil
        /\ ret.signatures = {}
        /\ ~ret.err.isNil
        /\ HashStatusFailed => ret.err = ErrText("signing hash failed")

\* a sign-hash round trip fails after an earlier one has produced a signature
C2_Witness ==
    /\ op = "Sign"
    /\ HashStatusFailed
    /\ signatures # {}
    /\ ret.state = "returned"

(***************************************************************************)
(* C3: at every point of the Collecting phase (and in the result), an      *)
(* entry of signatures stands for a sign-hash round trip for its path that *)
(* returned NoErrors with a non-empty body, and its value is that response *)
(* without the two status bytes.                                           *)
(***************************************************************************)
\* the number of sign-hash frames among the first k frames sent
HashOrdinal(k) == Cardinality({m \in 1..k : IsHashFrame(sent[m])})

EntryJustified(e) ==
    \E k \in 1..Len(replies) :
        /\ IsHashFrame(sent[k])
        /\ args.signingPaths[HashOrdinal(k)] = e.key
        /\ replies[k].err.isNil
        /\ Len(replies[k].data) > 2
        /\ StatusOf(replies[k].data) = NoErrors
        /\ e.val = Body(replies[k].data)

C3_SignaturesOnlyFromSuccess ==
    op = "Sign" =>
        /\ \A e \in signatures : EntryJustified(e)
        /\ \A e \in ret.signatures : EntryJustified(e)
        /\ UploadDone \/ signatures = {}

\* two signatures are held while a third round trip is not yet due
C3_Witness ==
    /\ op = "Sign"
    /\ Cardinality(signatures) = 2
    /\ \E e \in signatures : Len(e.val) = 2

(***************************************************************************)
(* C4: once the upload phase of a Sign run is complete, the last chunk     *)
(* frame sent is tagged PAYLOAD_LAST, every earlier one PAYLOAD_ADD, and   *)
(* p2 is 0 in all of them.  Refuted: a payload whose length is a multiple  *)
(* of CHUNK_SIZE is sent with PAYLOAD_ADD in every frame.                  *)
(***************************************************************************)
C4_LastChunkTaggedLast ==
    (UploadDone /\ ChunkFrames # <<>>) =>
        \A k \in 1..Len(ChunkFrames) :
            /\ FrameP2(ChunkFrames[k]) = 0
            /\ FrameP1(ChunkFrames[k]) =
                   IF k = Len(ChunkFrames) THEN PAYLOAD_LAST ELSE PAYLOAD_ADD

(***************************************************************************)
(* C5: the upload payload is the count of the effective paths, their       *)
(* suffix serializations in order and the message, the effective paths     *)
(* being signingPaths followed by changePaths, duplicates removed.         *)
(* Refuted: with changePaths nil the duplicates of signingPaths stay.      *)
(***************************************************************************)
EffectivePaths == FirstOccurrences(args.signingPaths \o args.changePaths)

C5_UploadPayload ==
    (InitDone /\ AllSuffixesValid) =>
        msg = <<Len(EffectivePaths)>>
              \o Flatten([k \in 1..Len(EffectivePaths) |->
                              SerializePathSuffix(EffectivePaths[k]).buf])
              \o args.message

(***************************************************************************)
(* C6: the sign-hash frames are sent one per element of signingPaths in    *)
(* the order of the argument, each carrying the suffix serialization of    *)
(* its element, with p1 = LAST_MESSAGE for the final element and           *)
(* NEXT_MESSAGE for the others; a successful run with n >= 1 signing paths *)
(* has sent exactly n of them.                                             *)
(***************************************************************************)
C6_HashFramesInArgumentOrder ==
    op = "Sign" =>
        /\ Len(HashFrames) <= Len(args.signingPaths)
        /\ \A k \in 1..Len(HashFrames) :
               /\ SubSeq(HashFrames[k], 5, Len(HashFrames[k]))
                      = SerializePathSuffix(args.signingPaths[k]).buf
               /\ SerializePathSuffix(args.signingPaths[k]).ok
               /\ FrameP1(HashFrames[k]) =
                      IF k = Len(args.signingPaths) THEN LAST_MESSAGE ELSE NEXT_MESSAGE
        /\ SignSucceeded => Len(HashFrames) = Len(args.signingPaths)

\* a successful run whose signing paths repeat a path that the upload holds once
C6_Witness ==
    /\ SignSucceeded
    /\ Len(args.signingPaths) = 2
    /\ args.signingPaths[1] = args.signingPaths[2]
    /\ ~args.changeNil
    /\ Len(HashFrames) = 2

(***************************************************************************)
(* C7: a Sign run sends its frames in the order INIT, chunks, sign-hash:   *)
(* the first frame is the one INIT frame (p2 = FIRST_MESSAGE), no chunk    *)
(* frame follows a sign-hash frame, and a frame is sent only when every    *)
(* earlier frame has been answered.                                        *)
(***************************************************************************)
C7_PhaseOrder ==
    op = "Sign" =>
        /\ Len(replies) <= Len(sent)
        /\ Len(sent) <= Len(replies) + 1
        /\ \A k \in 1..Len(sent) :
               /\ IsInitFrame(sent[k]) <=> k = 1
               /\ IsInitFrame(sent[k]) => FrameP2(sent[k]) = FIRST_MESSAGE
               /\ IsInitFrame(sent[k]) \/ IsChunkFrame(sent[k]) \/ IsHashFrame(sent[k])
               /\ k > 1 => replies[1].err.isNil
        /\ \A j, k \in 1..Len(sent) :
               (j < k /\ IsHashFrame(sent[j])) => IsHashFrame(sent[k])

\* a run with several chunks and several sign-hash frames
C7_Witness ==
    /\ op = "Sign"
    /\ Len(ChunkFrames) >= 2
    /\ Len(HashFrames) >= 2
    /\ pc = "done"

(***************************************************************************)
(* C8: FindLedgerAvalancheApp closes the handle Connect returned exactly   *)
(* once when it returns an error, never when it returns a session, and     *)
(* issues no Close when Connect fails.                                     *)
(***************************************************************************)
C8_HandleClosedOnError ==
    op = "Find" =>
        /\ pc # "done" => closed = 0
        /\ (pc = "done" /\ opened = 0) => (closed = 0 /\ ~ret.err.isNil)
        /\ (pc = "done" /\ opened = 1 /\ ~ret.err.isNil) => closed = 1
        /\ (pc = "done" /\ ret.err.isNil) => (closed = 0 /\ opened = 1 /\ ~ret.isNil)

\* the version check fails after both version retrievals have succeeded
C8_Witness ==
    /\ op = "Find"
    /\ pc = "done"
    /\ Len(replies) = 2
    /\ replies[2].err.isNil
    /\ Len(replies[2].data) >= 4
    /\ closed = 1

(***************************************************************************)
(* C9: a malformed path, suffix, prefix or chain id given to GetPubKey or  *)
(* Sign is detected before any frame is sent.  Refuted: Sign serializes    *)
(* the suffixes only after the INIT exchange.                              *)
(***************************************************************************)
MalformedInput ==
    \/ /\ op = "Sign"
       /\ ~SerializePath(args.pathPrefix).ok \/ ~AllSuffixesValid
    \/ /\ op = "GetPubKey"
       /\ \/ Len(args.hrp) > 83
          \/ ~SerializeHrp(args.hrp).ok
          \/ ~SerializePath(args.path).ok
          \/ ~SerializeChainID(args.chainid).ok

C9_MalformedInputSendsNothing == MalformedInput => sent = <<>>

(***************************************************************************)
(* C10: every frame handed to the transport is the 5 header bytes CLA,     *)
(* INS, P1, P2, LEN and the payload, LEN being the length of the payload,  *)
(* which is at most 255.  Refuted: the sign-hash frame has a header of 4   *)
(* bytes, without LEN.                                                     *)
(***************************************************************************)
C10_FrameLength ==
    \A k \in 1..Len(sent) :
        /\ Len(sent[k]) >= 5
        /\ sent[k][1] = CLA
        /\ Len(sent[k]) - 5 <= 255
        /\ sent[k][5] = Len(sent[k]) - 5

(***************************************************************************)
(* C11: for a get-address response that passes the minimum-size check,     *)
(* GetPubKey returns as public key the declared number of bytes after the  *)
(* length byte and as hash the remaining bytes without the two status      *)
(* bytes.  Refuted: the hash keeps the status bytes, and a length byte of  *)
(* 255 (or one that points past the response) ends in a panic.             *)
(***************************************************************************)
PubKeyReplyAccepted ==
    /\ op = "GetPubKey"
    /\ Len(replies) = 1
    /\ replies[1].err.isNil
    /\ Len(replies[1].data) >= 35 + Len(args.hrp)

C11_PubKeyAndHash ==
    PubKeyReplyAccepted =>
        /\ ret.state = "returned"
        /\ ret.err.isNil
        /\ ret.publicKey = SubSeq(replies[1].data, 2, 1 + replies[1].data[1])
        /\ ret.hash = SubSeq(replies[1].data, 2 + replies[1].data[1],
                             Len(replies[1].data) - 2)

(***************************************************************************)
(* C12 as stated: a message of L bytes is uploaded in ceil(L / CHUNK_SIZE) *)
(* chunk frames, so the 1000-byte message with 3 signing paths takes 4.    *)
(* Stated for calls whose suffixes all serialize.  Refuted: what is        *)
(* chunked is the upload payload, which is longer than the message by the  *)
(* count byte and the path suffixes.                                       *)
(***************************************************************************)
\* ceil(n / CHUNK_SIZE)
ChunksOf(n) == (n + CHUNK_SIZE - 1) \div CHUNK_SIZE
\* the payload bytes of a chunk frame
ChunkPayload(f) == SubSeq(f, 6, Len(f))

C12_ChunksOfMessage ==
    (UploadDone /\ AllSuffixesValid) =>
        /\ Len(ChunkFrames) = ChunksOf(Len(args.message))
        /\ \A k \in 1..(Len(ChunkFrames) - 1) : Len(ChunkPayload(ChunkFrames[k])) = CHUNK_SIZE

(***************************************************************************)
(* C12 amended: an upload payload of P bytes is sent in ceil(P/CHUNK_SIZE) *)
(* chunk frames, all but the last of CHUNK_SIZE bytes and the last of the  *)
(* remaining bytes; P is 1 + the suffix bytes of the uploaded paths + the  *)
(* message length when every suffix serializes, and otherwise 0.  The      *)
(* 1000-byte message with 3 signing paths and no change paths is uploaded  *)
(* in 5 chunks, followed by 3 sign-hash round trips.                       *)
(***************************************************************************)
UploadedPaths == SignPaths(args.signingPaths, args.changePaths, args.changeNil)

C12_ChunksOfPayload ==
    UploadDone =>
        /\ Len(msg) = IF AllSuffixesValid
                      THEN 1 + SUFFIX_LEN * Len(UploadedPaths) + Len(args.message)
                      ELSE 0
        /\ Len(ChunkFrames) = ChunksOf(Len(msg))
        /\ \A k \in 1..Len(ChunkFrames) :
               Len(ChunkPayload(ChunkFrames[k])) =
                   IF k < Len(ChunkFrames) THEN CHUNK_SIZE
                   ELSE Len(msg) - CHUNK_SIZE * (Len(ChunkFrames) - 1)
        /\ (args = ScenarioArgs /\ SignSucceeded) =>
               (Len(ChunkFrames) = 5 /\ Len(HashFrames) = 3)

\* the scenario has run to its successful end
C12_Witness ==
    /\ args = ScenarioArgs
    /\ SignSucceeded
    /\ Len(ChunkFrames) = 5
    /\ Cardinality(ret.signatures) = 2

(***************************************************************************)
(* C13: GetVersion fails with "invalid response" whenever the response has *)
(* fewer than 4 bytes before its two status bytes, and otherwise returns   *)
(* the first four bytes as appMode, major, minor, patch; a failure leaves  *)
(* ledger.version as it was.  Refuted: the length check counts the status  *)
(* bytes, so a body of 2 or 3 bytes is accepted.                           *)
(***************************************************************************)
\* the reply the step receives carries a body and the status NoErrors
GetVersionSuccessReply ==
    /\ replies'[1].err.isNil
    /\ Len(replies'[1].data) >= 2
    /\ StatusOf(replies'[1].data) = NoErrors

C13_GetVersionMalformed ==
    [][(op = "GetVersion" /\ pc = "GV_recv") =>
          /\ ~ret'.err.isNil => version' = version
          /\ GetVersionSuccessReply =>
                 IF Len(Body(replies'[1].data)) < 4
                 THEN ret'.err = ErrText("invalid response")
                 ELSE /\ ret'.err.isNil
                      /\ version' = [AppMode |-> replies'[1].data[1],
                                     Major |-> replies'[1].data[2],
                                     Minor |-> replies'[1].data[3],
                                     Patch |-> replies'[1].data[4]]]_vars

(***************************************************************************)
(* C14: RemoveDuplicates returns the distinct elements of its argument in  *)
(* the order of their first occurrence: every element of the input occurs  *)
(* exactly once in the output, the output has no other element, first      *)
(* occurrences keep their relative order, and applying it to its own       *)
(* output changes nothing; a,b,a,c,b gives a,b,c.                          *)
(***************************************************************************)
\* the index of the first occurrence of x in s
FirstIndex(s, x) == CHOOSE k \in 1..Len(s) : s[k] = x /\ \A j \in 1..(k - 1) : s[j] # x

C14_RemoveDuplicates ==
    (op = "RemoveDuplicates" /\ pc = "done") =>
        /\ Range(ret.list) = Range(args.elements)
        /\ \A j, k \in 1..Len(ret.list) : j # k => ret.list[j] # ret.list[k]
        /\ \A j, k \in 1..Len(ret.list) :
               j < k => FirstIndex(args.elements, ret.list[j])
                            < FirstIndex(args.elements, ret.list[k])
        /\ RemoveDuplicates(ret.list) = ret.list
        /\ args.elements = <<SuffixA, SuffixB, SuffixA, SuffixBad, SuffixB>>
               => ret.list = <<SuffixA, SuffixB, SuffixBad>>

\* the example a,b,a,c,b has been deduplicated
C14_Witness ==
    /\ op = "RemoveDuplicates"
    /\ pc = "done"
    /\ args.elements = <<SuffixA, SuffixB, SuffixA, SuffixBad, SuffixB>>
    /\ Len(ret.list) = 3

(***************************************************************************)
(* C15: Sign sends a sign-hash frame only after the whole upload payload   *)
(* has been sent: once a sign-hash frame is out, at least one chunk frame  *)
(* was sent and the chunk payloads, concatenated in the order sent, are    *)
(* the count byte, the path suffixes and the message.  Refuted: a suffix   *)
(* that fails to serialize makes the payload nil and the upload is skipped.*)
(***************************************************************************)
ChunkPayloads == Flatten([k \in 1..Len(ChunkFrames) |-> SubSeq(ChunkFrames[k], 6,
                                                                Len(ChunkFrames[k]))])

C15_UploadBeforeSignHash ==
    (op = "Sign" /\ HashFrames # <<>>) =>
        /\ Len(ChunkFrames) >= 1
        /\ Len(ChunkPayloads) >= 1 + Len(args.message)
        /\ SubSeq(ChunkPayloads, Len(ChunkPayloads) - Len(args.message) + 1,
                  Len(ChunkPayloads)) = args.message

(***************************************************************************)
(* C16: a sign-hash response shorter than 2 bytes, the empty response      *)
(* included, makes Sign return an error and no result.  Refuted: the       *)
(* status is read at len(response)-2 without a length check, which is a    *)
(* run-time panic and not a returned error.                                *)
(***************************************************************************)
ShortHashReply ==
    /\ op = "Sign"
    /\ AllSuffixesValid
    /\ \E k \in 1..Len(replies) :
           /\ IsHashFrame(sent[k])
           /\ replies[k].err.isNil
           /\ Len(replies[k].data) < 2

C16_ShortHashResponseIsError ==
    ShortHashReply =>
        /\ ret.state = "returned"
        /\ ret.isNil
        /\ ~ret.err.isNil

(***************************************************************************)
(* C17: when the exchange of an upload chunk fails, Sign returns no result *)
(* and an error: the raw response as the error text if the transport's     *)
(* error is "bad key handle" or "data reversibly blocked", the transport's *)
(* error unchanged otherwise; the failed chunk frame is the last frame     *)
(* sent, so no further chunk and no sign-hash frame follows.               *)
(***************************************************************************)
ChunkFailedAt(k) ==
    /\ op = "Sign"
    /\ k \in 1..Len(replies)
    /\ IsChunkFrame(sent[k])
    /\ ~replies[k].err.isNil

SpecialChunkErrors == {ErrBadKeyHandle, ErrDataInvalid}

C17_ChunkFailure ==
    \A k \in 1..Len(replies) :
        ChunkFailedAt(k) =>
            /\ pc = "done"
            /\ k = Len(sent)
            /\ HashFrames = <<>>
            /\ ret.state = "returned"
            /\ ret.isNil
            /\ ~ret.err.isNil
            /\ replies[k].err.text \in SpecialChunkErrors
                   => (ret.err.text = "" /\ ret.err.raw = replies[k].data)
            /\ replies[k].err.text \notin SpecialChunkErrors
                   => ret.err = replies[k].err

\* the second chunk of an upload fails with "bad key handle" and a response
C17_Witness ==
    /\ ChunkFailedAt(3)
    /\ IsChunkFrame(sent[2])
    /\ replies[3].err.text = ErrBadKeyHandle
    /\ replies[3].data # <<>>
    /\ pc = "done"

\* some chunk fails with an error that is neither of the two special ones
C17_WitnessOther ==
    \E k \in 1..Len(replies) :
        ChunkFailedAt(k) /\ replies[k].err.text \notin SpecialChunkErrors /\ pc = "done"

(***************************************************************************)
(* C18: when the INIT exchange of Sign fails, whatever the transport's     *)
(* error, Sign returns no result and the fixed error "command rejected",   *)
(* and the INIT frame stays the only frame sent: no chunk frame and no     *)
(* sign-hash frame follows.                                                *)
(***************************************************************************)
InitFailed ==
    /\ op = "Sign"
    /\ Len(replies) >= 1
    /\ IsInitFrame(sent[1])
    /\ ~replies[1].err.isNil

C18_InitFailureCommandRejected ==
    InitFailed =>
        /\ pc = "done"
        /\ ret.state = "returned"
        /\ ret.isNil
        /\ ret.signatures = {}
        /\ ret.err = ErrText("command rejected")
        /\ ret.err # replies[1].err
        /\ Len(sent) = 1
        /\ ChunkFrames = <<>>
        /\ HashFrames = <<>>

\* the INIT exchange fails with an error other than the plain transport error
C18_Witness ==
    /\ InitFailed
    /\ replies[1].err = ErrText(ErrBadKeyHandle)
    /\ args.signingPaths # <<>>
    /\ pc = "done"

(***************************************************************************)
(* C19: the outcome of the CheckVersion method is a function of the reply  *)
(* to its one get-version exchange and does not depend on the version it   *)
(* is called with: the transport's error, "invalid response", or the       *)
(* result of comparing the re-fetched version with {0, 0, 6, 5}.  Calls    *)
(* with different arguments and the same reply thus return the same.  A    *)
(* FindLedgerAvalancheApp that succeeds has sent exactly two get-version   *)
(* frames.                                                                 *)
(***************************************************************************)
FetchedVersion(data) ==
    [AppMode |-> data[1], Major |-> data[2], Minor |-> data[3], Patch |-> data[4]]

\* the outcome the claim gives for the reply r, whatever the argument
OutcomeOfReply(r) ==
    IF ~r.err.isNil THEN r.err
    ELSE IF Len(r.data) < 4 THEN ErrText("invalid response")
    ELSE CheckVersionReq(FetchedVersion(r.data), RequiredVersion)

CheckVersionReturned == op = "CheckVersion" /\ pc = "done"
FindSucceeded == op = "Find" /\ pc = "done" /\ ret.state = "returned" /\ ret.err.isNil

C19_CheckVersionIgnoresArgument ==
    /\ CheckVersionReturned =>
           /\ sent = <<GetVersionFrame>>
           /\ Len(replies) = 1
           /\ ret.state = "returned"
           /\ ret.err = OutcomeOfReply(replies[1])
    /\ FindSucceeded =>
           /\ sent = <<GetVersionFrame, GetVersionFrame>>
           /\ Len(replies) = 2
           /\ ~ret.isNil
           /\ opened = 1 /\ closed = 0

\* CheckVersion is called with a version that is not the required one, the
\* device reports the required one, and the call succeeds
C19_Witness ==
    /\ CheckVersionReturned
    /\ args.ver = SeenVersion
    /\ replies[1].err.isNil
    /\ Len(replies[1].data) >= 4
    /\ FetchedVersion(replies[1].data) = RequiredVersion
    /\ ret.err.isNil

\* CheckVersion is called with the required version, the device reports
\* another one, and the call fails
C19_WitnessRejected ==
    /\ CheckVersionReturned
    /\ args.ver = RequiredVersion
    /\ replies[1].err.isNil
    /\ Len(replies[1].data) >= 4
    /\ FetchedVersion(replies[1].data) = SeenVersion
    /\ ~ret.err.isNil

(***************************************************************************)
(* C20: no operation retries.  Once an exchange of GetVersion,             *)
(* CheckVersion, GetPubKey, Sign or FindLedgerAvalancheApp has returned an *)
(* error, the operation has returned an error to its caller, the failed    *)
(* exchange is the last one (no frame is sent after it, every exchange     *)
(* before it succeeded) and the device was opened at most once.            *)
(***************************************************************************)
C20_NoRetry ==
    ExchangeFailed =>
        /\ pc = "done"
        /\ ret.state = "returned"
        /\ ~ret.err.isNil
        /\ Len(sent) = Len(replies)
        /\ \A k \in 1..(Len(replies) - 1) : replies[k].err.isNil
        /\ ~replies[Len(replies)].err.isNil
        /\ opened <= 1

\* a sign-hash exchange fails after the INIT, a chunk and a sign-hash exchange
\* that succeeded
C20_Witness ==
    /\ op = "Sign"
    /\ ExchangeFailed
    /\ Len(replies) >= 4
    /\ IsHashFrame(sent[Len(sent)])
    /\ IsHashFrame(sent[Len(sent) - 1])

\* the get-version exchange of the version check of FindLedgerAvalancheApp fails
C20_WitnessFind == op = "Find" /\ ExchangeFailed /\ Len(replies) = 2

\* the only exchange of GetPubKey fails
C20_WitnessPubKey == op = "GetPubKey" /\ ExchangeFailed

====
